---- MODULE Spec2Model ----
(***************************************************************************)
(* EventMesh: the recommendation engine of app/services/                   *)
(* recommendation_service.py (RecommendationService) and its cache, the    *)
(* two endpoints of app/api/events.py that serve its scores, and the       *)
(* connection requests of app/api/connections.py.                          *)
(*                                                                         *)
(* Conventions                                                             *)
(*  - a Python dict read from the store is a sequence of records with an   *)
(*    "id" field, in the order the dict iterates;                          *)
(*  - a float score x is the integer x * Scale (exact rational arithmetic) *)
(*  - times are seconds on the wall clock; a venue position is a point of  *)
(*    the equator given as kilometres of arc from longitude 0, where the   *)
(*    Haversine distance of two points is the difference of their arcs.    *)
(***************************************************************************)
EXTENDS Integers, Sequences, FiniteSets, TLC

VARIABLES
    clock,              \* time.time() / datetime.now()
    store_users,        \* the external store: collection 'users'
    store_events,       \* the external store: collection 'events'
    store_writes,       \* number of writes the store has taken (bounded)
    ticks,              \* number of clock advances (bounded)
    users_data,         \* RecommendationService.users_data
    events_data,        \* RecommendationService.events_data
    social_graph,       \* RecommendationService.social_graph
    last_refresh_time,  \* RecommendationService.last_refresh_time
    users_from,         \* history: the initialize() call that wrote users_data
    events_from,        \* history: the initialize() call that wrote events_data
    graph_from,         \* history: the initialize() call that wrote social_graph
    pc,                 \* per request: where its coroutine stands
    req,                \* per request: the arguments of the call
    result,             \* per request: what the call ended in
    score_in,           \* the arguments of one call of a score function
    score_out,          \* what that call returned
    store_connections,  \* the external store: collection 'connections'
    connection_count,   \* the external store: 'connection_count' of each user
    conn_response       \* what the last request on connections was answered

vars == <<clock, store_users, store_events, store_writes, ticks, users_data,
          events_data, social_graph, last_refresh_time, users_from,
          events_from, graph_from, pc, req, result, score_in, score_out,
          store_connections, connection_count, conn_response>>

cache_vars == <<users_data, events_data, social_graph, last_refresh_time,
                users_from, events_from, graph_from>>

store_vars == <<store_users, store_events, store_writes>>

score_vars == <<score_in, score_out>>

conn_vars == <<store_connections, connection_count, conn_response>>

---------------------------------------------------------------------------
(* Bounds of the model *)

NumReqs == 3
MaxTicks == 1
MaxStoreWrites == 1
MaxLimit == 2
MaxConnectionCount == 3

(* Program constants *)

refresh_interval == 3600
SecondsPerDay == 86400

\* One unit of score: the float 1.0
Scale == 268800

Reqs == 1..NumReqs

---------------------------------------------------------------------------
(* Helpers *)

Range(s) == {s[i] : i \in 1..Len(s)}

Min(a, b) == IF a <= b THEN a ELSE b

Max(a, b) == IF a >= b THEN a ELSE b

Abs(a) == IF a >= 0 THEN a ELSE -a

\* dict as an ordered sequence of records with an id
Keys(d) == {d[i].id : i \in 1..Len(d)}

Has(d, k) == k \in Keys(d)

Get(d, k) == d[CHOOSE i \in 1..Len(d) : d[i].id = k]

---------------------------------------------------------------------------
(* The social graph *)

NoneGraph == [is_none |-> TRUE, nodes |-> {}, interests |-> <<>>, edges |-> {}]

\* _build_social_graph without the test `connection_id in G`: add_edge makes
\* a node of an id that is no user
BuildSocialGraphDangling(users) ==
    LET listed == UNION {{users[i].connections[j] : j \in 1..Len(users[i].connections)} :
                           i \in 1..Len(users)}
        G_nodes == Keys(users) \cup listed
    IN  [is_none   |-> FALSE,
         nodes     |-> G_nodes,
         interests |-> [k \in G_nodes |->
                          IF k \in Keys(users) THEN Range(Get(users, k).interests) ELSE {}],
         edges     |-> UNION {{{users[i].id, c} : c \in Range(users[i].connections)} :
                              i \in 1..Len(users)}]

\* nx.Graph built by _build_social_graph: a node per user of users_data, an
\* edge per connection id that is itself a node
BuildSocialGraph(users) ==
    LET G_nodes == Keys(users)
    IN  [is_none   |-> FALSE,
         nodes     |-> G_nodes,
         interests |-> [k \in G_nodes |-> Range(Get(users, k).interests)],
         edges     |-> UNION {{{users[i].id, c} :
                                 c \in Range(users[i].connections) \cap G_nodes} :
                              i \in 1..Len(users)}]

Neighbors(G, u) == {v \in G.nodes : {u, v} \in G.edges}

---------------------------------------------------------------------------
(* Score functions *)

\* _calculate_distance on points of the equator
CalculateDistance(p1, p2) == Abs(p2 - p1)

\* _calculate_interest_score dividing by len(event_categories), duplicates
\* counted
CalculateInterestScoreByLen(user_interests, event_categories) ==
    IF Len(user_interests) = 0 \/ Len(event_categories) = 0
    THEN 0
    ELSE (Scale * Cardinality(Range(user_interests) \cap Range(event_categories)))
            \div Len(event_categories)

\* _calculate_interest_score
CalculateInterestScore(user_interests, event_categories) ==
    IF Len(user_interests) = 0 \/ Len(event_categories) = 0
    THEN 0
    ELSE (Scale * Cardinality(Range(user_interests) \cap Range(event_categories)))
            \div Cardinality(Range(event_categories))

\* attendees of an event record: the ids of event.get('attendees', [])
AttendeeList(event) == IF event.attendees.present THEN event.attendees.list ELSE <<>>

\* _calculate_social_score dividing by the number of attendees
CalculateSocialScoreOverAttendees(G, events, user_id, event_id) ==
    IF user_id \notin G.nodes \/ ~Has(events, event_id)
    THEN 0
    ELSE LET event_attendees == Range(AttendeeList(Get(events, event_id)))
             user_connections == Neighbors(G, user_id)
             attending_connections == user_connections \cap event_attendees
         IN  IF user_connections = {} \/ event_attendees = {}
             THEN 0
             ELSE (Scale * Cardinality(attending_connections))
                     \div Cardinality(event_attendees)

\* _calculate_social_score (social_graph is not None here)
CalculateSocialScore(G, events, user_id, event_id) ==
    IF user_id \notin G.nodes \/ ~Has(events, event_id)
    THEN 0
    ELSE LET event_attendees == Range(AttendeeList(Get(events, event_id)))
             user_connections == Neighbors(G, user_id)
             attending_connections == user_connections \cap event_attendees
         IN  IF user_connections = {}
             THEN 0
             ELSE (Scale * Cardinality(attending_connections))
                     \div Cardinality(user_connections)

\* _inflate_score whose gradient branch adds no inflation
InflateScoreFlatOnly(score) ==
    Min((9 * Scale) \div 10, IF 2 * score <= Scale THEN score + Scale \div 4 ELSE score)

\* _inflate_score whose gradient subtracts score_position itself, not
\* score_position * max_inflation
InflateScoreSteepGradient(score) ==
    Min((9 * Scale) \div 10,
        IF 2 * score <= Scale
        THEN score + Scale \div 4
        ELSE score + (Scale \div 4 - (5 * (score - Scale \div 2)) \div 2))

\* _inflate_score without the cap of the last line
InflateScoreNoCap(score) ==
    IF 2 * score <= Scale
    THEN score + Scale \div 4
    ELSE score + (Scale \div 4 - (5 * (score - Scale \div 2)) \div 8)

\* _inflate_score whose gradient runs from 0.5 to 1.0 (max_score = 1.0)
InflateScoreGradientToOne(score) ==
    Min((9 * Scale) \div 10,
        IF 2 * score <= Scale
        THEN score + Scale \div 4
        ELSE score + (Scale \div 4 - (score - Scale \div 2) \div 2))

\* _inflate_score
InflateScore(score) ==
    LET inflated_score ==
            IF 2 * score <= Scale
            THEN score + Scale \div 4
            ELSE score + (Scale \div 4 - (5 * (score - Scale \div 2)) \div 8)
    IN  Min((9 * Scale) \div 10, inflated_score)

\* _calculate_location_score: user_location is given here; a venue without
\* usable coordinates scores 0
CalculateLocationScore(user_pos, venue, max_distance) ==
    IF venue.kind # "coord"
    THEN 0
    ELSE Max(0, Scale - (Scale * CalculateDistance(user_pos, venue.pos)) \div max_distance)

\* An event_time argument: None, or a datetime of wall time t
NoneTime == [present |-> FALSE, t |-> 0]

SomeTime(t) == [present |-> TRUE, t |-> t]

\* _calculate_time_relevance_score counting a started day as a whole day
CalculateTimeRelevanceScoreRoundsUp(event_time, now2) ==
    IF ~event_time.present \/ event_time.t < now2
    THEN 0
    ELSE LET days_until_event ==
                 (event_time.t - now2 + SecondsPerDay - 1) \div SecondsPerDay
         IN  IF days_until_event <= 14
             THEN Scale - (Scale * days_until_event) \div 14
             ELSE IF days_until_event <= 30
                  THEN Scale \div 2 - (Scale * (days_until_event - 14)) \div 30
                  ELSE (3 * Scale) \div 10

\* _calculate_time_relevance_score, reading datetime.now() as now2
CalculateTimeRelevanceScore(event_time, now2) ==
    IF ~event_time.present \/ event_time.t < now2
    THEN 0
    ELSE LET days_until_event == (event_time.t - now2) \div SecondsPerDay
         IN  IF days_until_event <= 14
             THEN Scale - (Scale * days_until_event) \div 14
             ELSE IF days_until_event <= 30
                  THEN Scale \div 2 - (Scale * (days_until_event - 14)) \div 30
                  ELSE (3 * Scale) \div 10

---------------------------------------------------------------------------
(* get_event_recommendations *)

\* A stored start_time: kind is one of
\*   "missing"   absent, None, '' or 0
\*   "naive_str" an ISO string without offset, wall time t
\*   "aware_str" an ISO string with an offset (or Z): wall time t at offset off,
\*               off being its UTC offset less the UTC offset of the server's
\*               zone, so that it names the moment t - off of the server's clock
\*   "garbage"   a string no format parses, or a value of another type (a
\*               list, a dict)
\*   "timestamp" an int or float, seconds t
\*   "aware_dt"  a timezone-aware datetime, wall time t at offset off
\* The parse of lines 254-285: the offset is dropped, the wall time kept; a
\* string nothing parses, like a value of another type, stays what it is and
\* its comparison with now raises.
ParseStartTime(st) ==
    CASE st.kind = "missing" -> [status |-> "skip", t |-> 0]
      [] st.kind = "garbage" -> [status |-> "raise", t |-> 0]
      [] OTHER               -> [status |-> "ok", t |-> st.t]

\* user.get('connections', []) as a set
UserConnections(user) == Range(user.connections)

\* is_new_user with `or` for `and`
IsNewUserEither(user) == user.events_attended < 2 \/ Cardinality(UserConnections(user)) < 3

\* is_new_user
IsNewUser(user) == user.events_attended < 2 /\ Cardinality(UserConnections(user)) < 3

\* total_score, lines 310-326
TotalScore(is_new_user, interest_score, social_score, location_score, time_score) ==
    IF is_new_user
    THEN (50 * interest_score + 10 * social_score
          + 20 * location_score + 20 * time_score) \div 100
    ELSE (35 * interest_score + 25 * social_score
          + 20 * location_score + 20 * time_score) \div 100

\* "Skip past events", line 288
IsPast(event_time, now) == event_time < now

\* "Skip events that are too far away" without the test of user_location
TooFarAwayAnyCall(location_score, loc) == location_score = 0

\* "Skip events that are too far away", line 307
TooFarAway(location_score, loc) == location_score = 0 /\ loc.given

\* One pass of the loop body, lines 252-372, on one event: whether the event is
\* appended, and the entry appended
ProcessEvent(G, events, user, a, now, event) ==
    LET p == ParseStartTime(event.start_time)
        skip == [take |-> FALSE,
                 entry |-> [id |-> event.id, start_time |-> 0,
                            category |-> event.category, price |-> event.price,
                            score |-> 0, original_score |-> 0,
                            score_details |-> [interest_score |-> 0, social_score |-> 0,
                                               location_score |-> 0, time_score |-> 0]]]
    IN  IF p.status # "ok" \/ G.is_none \/ (a.loc.given /\ a.max_distance_km = 0)
        THEN skip
        ELSE IF IsPast(p.t, now)
        THEN skip
        ELSE LET interest_score == CalculateInterestScore(user.interests, event.category)
                 social_score == CalculateSocialScore(G, events, a.user_id, event.id)
                 location_score ==
                     IF a.loc.given
                     THEN CalculateLocationScore(a.loc.pos, event.venue, a.max_distance_km)
                     ELSE 0
                 time_score == CalculateTimeRelevanceScore(SomeTime(p.t), now + a.lag)
                 total_score == TotalScore(IsNewUser(user), interest_score, social_score,
                                           location_score, time_score)
             IN  IF TooFarAway(location_score, a.loc)
                 THEN skip
                 ELSE [take |-> TRUE,
                       entry |-> [id |-> event.id, start_time |-> p.t,
                                  category |-> event.category, price |-> event.price,
                                  score |-> InflateScore(total_score),
                                  original_score |-> total_score,
                                  score_details |->
                                      [interest_score |-> interest_score,
                                       social_score |-> social_score,
                                       location_score |-> location_score,
                                       time_score |-> time_score]]]

\* lines 331-346: an appended event's record gets its missing keys
FillEvent(event) ==
    [event EXCEPT !.attendees = IF @.present THEN @ ELSE [present |-> TRUE, list |-> <<>>],
                  !.venue = IF @.kind = "missing" THEN [kind |-> "nocoord", pos |-> 0] ELSE @,
                  !.schedule = TRUE]

\* a descending sort that puts an entry before the earlier entries of its score
InsertByScoreTiesFirst(sorted, x) ==
    LET k == Cardinality({j \in 1..Len(sorted) : sorted[j].score > x.score})
    IN  SubSeq(sorted, 1, k) \o <<x>> \o SubSeq(sorted, k + 1, Len(sorted))

\* list.sort(key=score, reverse=True): stable, descending
InsertByScore(sorted, x) ==
    LET k == Cardinality({j \in 1..Len(sorted) : sorted[j].score >= x.score})
    IN  SubSeq(sorted, 1, k) \o <<x>> \o SubSeq(sorted, k + 1, Len(sorted))

SortByScore(s) ==
    LET F[i \in 0..Len(s)] == IF i = 0 THEN <<>> ELSE InsertByScore(F[i - 1], s[i])
    IN  F[Len(s)]

\* s[:limit]
Truncate(s, limit) ==
    IF limit >= 0
    THEN SubSeq(s, 1, Min(limit, Len(s)))
    ELSE SubSeq(s, 1, Max(0, Len(s) + limit))

\* recommended_events when an event whose processing raises ends the loop
\* (no try/except inside the loop)
RecommendedEventsStopAtRaise(G, events, user, a, now) ==
    LET raising == {i \in 1..Len(events) :
                      ParseStartTime(events[i].start_time).status = "raise"}
        n == IF raising = {} THEN Len(events)
             ELSE (CHOOSE i \in raising : \A j \in raising : i <= j) - 1
        F[i \in 0..n] ==
            IF i = 0 THEN <<>>
            ELSE LET o == ProcessEvent(G, events, user, a, now, events[i])
                 IN  IF o.take THEN Append(F[i - 1], o.entry) ELSE F[i - 1]
    IN  F[n]

\* recommended_events before the sort, in the order events_data iterates
RecommendedEvents(G, events, user, a, now) ==
    LET F[i \in 0..Len(events)] ==
            IF i = 0 THEN <<>>
            ELSE LET o == ProcessEvent(G, events, user, a, now, events[i])
                 IN  IF o.take THEN Append(F[i - 1], o.entry) ELSE F[i - 1]
    IN  F[Len(events)]

\* The body of get_event_recommendations after refresh_if_needed, lines
\* 230-376: the list returned, the full sorted list, and events_data after
GetEventRecommendations(users, events, G, a, now) ==
    IF ~Has(users, a.user_id)
    THEN [items |-> <<>>, ranked |-> <<>>, events |-> events]
    ELSE LET user == Get(users, a.user_id)
             ranked == SortByScore(RecommendedEvents(G, events, user, a, now))
         IN  [items  |-> Truncate(ranked, a.limit),
              ranked |-> ranked,
              events |-> [i \in 1..Len(events) |->
                            IF ProcessEvent(G, events, user, a, now, events[i]).take
                            THEN FillEvent(events[i]) ELSE events[i]]]

---------------------------------------------------------------------------
(* get_connection_recommendations *)

\* _get_user_events: the events whose attendee list holds user_id
GetUserEvents(events, user_id) ==
    {events[i].id : i \in {j \in 1..Len(events) : user_id \in Range(AttendeeList(events[j]))}}

\* interest_score of both connection recommenders, lines 403-404 and 510-511
ConnectionInterestScore(user_interests, other_interests) ==
    IF Len(user_interests) = 0
    THEN 0
    ELSE (Scale * Cardinality(Range(user_interests) \cap Range(other_interests)))
            \div Max(Len(user_interests), 1)

\* mutual_connections, lines 407-411 and 514-518: a graph that is None or has
\* no node is falsy
MutualConnections(G, user_id, other_id) ==
    IF ~G.is_none /\ G.nodes # {} /\ user_id \in G.nodes /\ other_id \in G.nodes
    THEN Neighbors(G, user_id) \cap Neighbors(G, other_id)
    ELSE {}

\* One pass of the loop body, lines 395-445
ConnectionEntry(users, events, G, user, user_id, other) ==
    LET common_interests == Range(user.interests) \cap Range(other.interests)
        interest_score == ConnectionInterestScore(user.interests, other.interests)
        mutual_connections == MutualConnections(G, user_id, other.id)
        mutual_connections_score == (Scale * Cardinality(mutual_connections)) \div 10
        common_events == Cardinality(GetUserEvents(events, user_id)
                                        \cap GetUserEvents(events, other.id))
        common_events_score == Min(Scale, (Scale * common_events) \div 5)
        total_score == (50 * interest_score + 30 * mutual_connections_score
                        + 20 * common_events_score) \div 100
    IN  [connection_id      |-> other.id,
         mutual_interests   |-> common_interests,
         mutual_connections |-> Cardinality(mutual_connections),
         events_in_common   |-> common_events,
         score              |-> InflateScore(total_score),
         original_score     |-> total_score]

\* potential_connections before the sort, in the order users_data iterates
PotentialConnections(users, events, G, user, user_id) ==
    LET F[i \in 0..Len(users)] ==
            IF i = 0 THEN <<>>
            ELSE IF users[i].id = user_id \/ users[i].id \in UserConnections(user)
                 THEN F[i - 1]
                 ELSE Append(F[i - 1], ConnectionEntry(users, events, G, user, user_id, users[i]))
    IN  F[Len(users)]

\* The body of get_connection_recommendations after refresh_if_needed
GetConnectionRecommendations(users, events, G, a) ==
    IF ~Has(users, a.user_id)
    THEN [items |-> <<>>, ranked |-> <<>>, events |-> events]
    ELSE LET user == Get(users, a.user_id)
             ranked == SortByScore(PotentialConnections(users, events, G, user, a.user_id))
         IN  [items |-> Truncate(ranked, a.limit), ranked |-> ranked, events |-> events]

---------------------------------------------------------------------------
(* get_event_based_connection_recommendations *)

\* attendees that leaves out the user only, not the user's connections
EventAttendeeCandidatesKeepsConnected(event, user, user_id) ==
    SelectSeq(AttendeeList(event), LAMBDA x : x # user_id)

\* attendees, lines 491-498: the event's attendee ids that are neither the
\* user nor in the user's connections list, in list order
EventAttendeeCandidates(event, user, user_id) ==
    SelectSeq(AttendeeList(event),
              LAMBDA x : x # user_id /\ x \notin UserConnections(user))

\* One pass of the loop body, lines 502-552
EventConnectionEntry(G, user, user_id, attendee) ==
    LET common_interests == Range(user.interests) \cap Range(attendee.interests)
        interest_score == ConnectionInterestScore(user.interests, attendee.interests)
        mutual_connections == MutualConnections(G, user_id, attendee.id)
        mutual_score == Min(Scale, (Scale * Cardinality(mutual_connections)) \div 5)
        total_score == (70 * interest_score + 30 * mutual_score) \div 100
    IN  [connection_id      |-> attendee.id,
         mutual_interests   |-> common_interests,
         mutual_connections |-> Cardinality(mutual_connections),
         events_in_common   |-> 0,
         score              |-> InflateScore(total_score),
         original_score     |-> total_score]

\* recommendations before the sort, in the order of the attendee list
EventRecommendations(users, G, user, user_id, attendees) ==
    LET F[i \in 0..Len(attendees)] ==
            IF i = 0 THEN <<>>
            ELSE IF ~Has(users, attendees[i])
                 THEN F[i - 1]
                 ELSE Append(F[i - 1],
                             EventConnectionEntry(G, user, user_id, Get(users, attendees[i])))
    IN  F[Len(attendees)]

\* get_event_based_connection_recommendations taking a user that is not in
\* users_data for an empty record
GetEventBasedNoUserCheck(users, events, G, a) ==
    IF ~Has(events, a.event_id)
    THEN [items |-> <<>>, ranked |-> <<>>, events |-> events]
    ELSE LET user == IF Has(users, a.user_id) THEN Get(users, a.user_id)
                     ELSE [id |-> a.user_id, interests |-> <<>>, connections |-> <<>>,
                           events_attended |-> 0]
             attendees == EventAttendeeCandidates(Get(events, a.event_id), user, a.user_id)
             ranked == SortByScore(EventRecommendations(users, G, user, a.user_id, attendees))
         IN  [items |-> Truncate(ranked, a.limit), ranked |-> ranked, events |-> events]

\* The body of get_event_based_connection_recommendations after
\* refresh_if_needed
GetEventBasedConnectionRecommendations(users, events, G, a) ==
    IF ~Has(events, a.event_id) \/ ~Has(users, a.user_id)
    THEN [items |-> <<>>, ranked |-> <<>>, events |-> events]
    ELSE LET user == Get(users, a.user_id)
             attendees == EventAttendeeCandidates(Get(events, a.event_id), user, a.user_id)
             ranked == SortByScore(EventRecommendations(users, G, user, a.user_id, attendees))
         IN  [items |-> Truncate(ranked, a.limit), ranked |-> ranked, events |-> events]

---------------------------------------------------------------------------
(* api/events.py: GET /recommendations/{user_id}, lines 224-338 *)

\* category_match_sort_key, lines 274-281
CategoryMatchSortKey(event, categories) ==
    << IF Range(event.category) \cap Range(categories) # {} THEN -1 ELSE 0,
       0 - event.score >>

\* k1 <= k2 for two such tuples
KeyLeq(k1, k2) == k1[1] < k2[1] \/ (k1[1] = k2[1] /\ k1[2] <= k2[2])

\* list.sort(key=category_match_sort_key): stable, ascending
InsertByCategoryMatch(sorted, x, categories) ==
    LET k == Cardinality({j \in 1..Len(sorted) :
                            KeyLeq(CategoryMatchSortKey(sorted[j], categories),
                                   CategoryMatchSortKey(x, categories))})
    IN  SubSeq(sorted, 1, k) \o <<x>> \o SubSeq(sorted, k + 1, Len(sorted))

SortByCategoryMatch(s, categories) ==
    LET F[i \in 0..Len(s)] ==
            IF i = 0 THEN <<>> ELSE InsertByCategoryMatch(F[i - 1], s[i], categories)
    IN  F[Len(s)]

\* "Filter by price if needed", lines 285-294
PriceFilter(events, free_only, max_price) ==
    IF free_only
    THEN SelectSeq(events, LAMBDA e : e.price = 0)
    ELSE IF max_price.given
         THEN SelectSeq(events, LAMBDA e : e.price = 0 \/ e.price <= max_price.amount)
         ELSE events

\* The endpoint after the user was found, lines 257-338. The loop of lines
\* 297-335 adds keys of value None (schedule, image_url, venue fields,
\* end_time) that no score reads: a venue without coordinates stays one.
RecommendationsEndpoint(users, events, G, a, now) ==
    LET out == GetEventRecommendations(users, events, G, a, now)
        recommended_events == out.items
        by_category == IF Len(a.categories) > 0
                       THEN SortByCategoryMatch(recommended_events, a.categories)
                       ELSE recommended_events
        filtered_events == PriceFilter(by_category, a.free_only, a.max_price)
    IN  [items |-> Truncate(filtered_events, a.limit), ranked |-> out.ranked,
         events |-> out.events]

---------------------------------------------------------------------------
(* api/events.py: GET /{event_id}/match/{user_id}, lines 340-480 *)

\* max_distance of _calculate_location_score when the caller gives none
DefaultMaxDistance == 20

\* max_distance_km of get_event_recommendations when the caller gives none
DefaultMaxDistanceKm == 10

\* event_time, lines 378-401: an ISO string loses its offset, a number is a
\* timestamp, anything else (a string no format parses, a datetime object,
\* a list) leaves event_time None
MatchEventTime(st) ==
    CASE st.kind \in {"naive_str", "aware_str", "timestamp"} -> SomeTime(st.t)
      [] OTHER -> NoneTime

\* is_new_user of the endpoint, line 421: the length of the connections list
MatchIsNewUser(user) == user.events_attended < 2 /\ Len(user.connections) < 3

\* The endpoint after the user and the event were found in the store and
\* refresh_if_needed returned, lines 367-442: the user and the event are the
\* store's documents, the graph and the attendees are the cache's
GetEventUserMatchScore(events, G, a, now) ==
    LET user == Get(store_users, a.user_id)
        event == Get(store_events, a.event_id)
        event_time == MatchEventTime(event.start_time)
        interest_score == CalculateInterestScore(user.interests, event.category)
        social_score == CalculateSocialScore(G, events, a.user_id, a.event_id)
        location_score ==
            IF a.loc.given
            THEN CalculateLocationScore(a.loc.pos, event.venue, DefaultMaxDistance)
            ELSE 0
        time_score == IF event_time.present
                      THEN CalculateTimeRelevanceScore(event_time, now)
                      ELSE 0
        total_score == TotalScore(MatchIsNewUser(user), interest_score, social_score,
                                  location_score, time_score)
        entry == [id |-> a.event_id, start_time |-> event_time.t,
                  category |-> event.category, price |-> event.price,
                  score |-> InflateScore(total_score),
                  original_score |-> total_score,
                  score_details |-> [interest_score |-> interest_score,
                                     social_score |-> social_score,
                                     location_score |-> location_score,
                                     time_score |-> time_score]]
    IN  [items |-> <<entry>>, ranked |-> <<entry>>, events |-> events]

---------------------------------------------------------------------------

\* The body of the call of kind a.kind, after refresh_if_needed returned
Recommend(users, events, G, a, now) ==
    CASE a.kind = "events"      -> GetEventRecommendations(users, events, G, a, now)
      [] a.kind = "connections" -> GetConnectionRecommendations(users, events, G, a)
      [] a.kind = "recommendations_endpoint" ->
            RecommendationsEndpoint(users, events, G, a, now)
      [] a.kind = "match_endpoint" -> GetEventUserMatchScore(events, G, a, now)
      [] OTHER                  -> GetEventBasedConnectionRecommendations(users, events, G, a)

---------------------------------------------------------------------------
(* The cache: __init__, initialize, refresh_if_needed, _load_all_data      *)
(*                                                                         *)
(* A call is a coroutine on the event loop. initialize() awaits             *)
(* _load_all_data(), which reads the two collections of the store one after *)
(* the other; the design has the refresh suspend on that I/O, so each read  *)
(* is a point where the coroutine may be suspended and other calls run.     *)
(* Nothing else in a call awaits. A store client whose reads block (as the  *)
(* synchronous firestore.client() of line 12 does) gives the runs in which  *)
(* LoadUsers and LoadEvents follow Call with no step of another call in     *)
(* between.                                                                 *)

\* refresh_if_needed with the interval doubled
RefreshNeededLate(current_time, last) == current_time - last > 2 * refresh_interval

\* refresh_if_needed, line 28
RefreshNeeded(current_time, last) == current_time - last > refresh_interval

\* time.time() when the process starts: the wall clock is past 01:00 on
\* 1 January 1970
StartClock == refresh_interval + 1

NoArgs == [kind |-> "none", user_id |-> "", event_id |-> "",
           loc |-> [given |-> FALSE, pos |-> 0], max_distance_km |-> 0,
           limit |-> 0, lag |-> 0]

\* No score function called yet
NoScoreIn == [fn |-> "none", score |-> 0, other |-> 0, event_time |-> NoneTime,
              user_interests |-> <<>>, event_categories |-> <<>>,
              users |-> <<>>, events |-> <<>>, user_id |-> "", event_id |-> ""]

NoScoreOut == [done |-> FALSE, value |-> 0, other |-> 0]

\* What a call saw of the cache when refresh_if_needed had returned
Saw(users, graph, last, u_from, e_from, g_from, refreshed) ==
    [at |-> clock, last_refresh_time |-> last, refreshed |-> refreshed,
     graph_none |-> graph.is_none,
     graph_of_users |-> (graph = BuildSocialGraph(users)),
     users_from |-> u_from, events_from |-> e_from, graph_from |-> g_from]

NoSaw == [at |-> 0, last_refresh_time |-> 0, refreshed |-> FALSE, graph_none |-> TRUE,
          graph_of_users |-> FALSE, users_from |-> 0, events_from |-> 0, graph_from |-> 0]

NoResult == [status |-> "none", items |-> <<>>, ranked |-> <<>>, saw |-> NoSaw]

Returned(out, saw) ==
    [status |-> "returned", items |-> out.items, ranked |-> out.ranked, saw |-> saw]

Raised == [status |-> "raised", items |-> <<>>, ranked |-> <<>>, saw |-> NoSaw]

\* HTTPException(status_code=404)
NotFound == [status |-> "not_found", items |-> <<>>, ranked |-> <<>>, saw |-> NoSaw]

\* No request on connections answered yet
NoResponse == [op |-> "none", user_id |-> "", other_id |-> "", status |-> "none"]

\* A call starts (requests are numbered in the order they arrive):
\* refresh_if_needed reads the clock. A fresh cache is read at
\* once and the call returns; a stale one starts initialize(), which stands
\* at the read of the users collection (line 34)
Call(r, a) ==
    /\ pc[r] = "idle"
    /\ \A q \in Reqs : q < r => pc[q] # "idle"
    /\ req' = [req EXCEPT ![r] = a]
    /\ IF RefreshNeeded(clock, last_refresh_time)
       THEN /\ pc' = [pc EXCEPT ![r] = "load_users"]
            /\ UNCHANGED <<cache_vars, result>>
       ELSE LET out == Recommend(users_data, events_data, social_graph, a, clock)
            IN  /\ pc' = [pc EXCEPT ![r] = "done"]
                /\ events_data' = out.events
                /\ result' = [result EXCEPT ![r] =
                                 Returned(out, Saw(users_data, social_graph, last_refresh_time,
                                                   users_from, events_from, graph_from, FALSE))]
                /\ UNCHANGED <<users_data, social_graph, last_refresh_time,
                               users_from, events_from, graph_from>>
    /\ UNCHANGED <<conn_vars, score_vars, clock, ticks, store_vars>>

\* _load_all_data, lines 34-35: the users collection is read into users_data;
\* the coroutine then stands at the read of the events collection (line 38)
LoadUsers(r) ==
    /\ pc[r] = "load_users"
    /\ users_data' = store_users
    /\ users_from' = r
    /\ pc' = [pc EXCEPT ![r] = "load_events"]
    /\ UNCHANGED <<conn_vars, score_vars, clock, ticks, store_vars, events_data, social_graph,
                   last_refresh_time, events_from, graph_from, req, result>>

\* _load_all_data, lines 38-39, then _build_social_graph and the timestamp
\* (lines 22-23), then the body of the call: nothing awaits in between
LoadEvents(r) ==
    /\ pc[r] = "load_events"
    /\ LET G == BuildSocialGraph(users_data)
           out == Recommend(users_data, store_events, G, req[r], clock)
       IN  /\ events_data' = out.events
           /\ social_graph' = G
           /\ last_refresh_time' = clock
           /\ events_from' = r
           /\ graph_from' = r
           /\ result' = [result EXCEPT ![r] =
                            Returned(out, Saw(users_data, G, clock, users_from, r, r, TRUE))]
    /\ pc' = [pc EXCEPT ![r] = "done"]
    /\ UNCHANGED <<conn_vars, score_vars, clock, ticks, store_vars, users_data, users_from, req>>

\* The store raises and the call swallows the exception: it goes on to its
\* body on the cache as it is
LoadRaisesSwallowed(r) ==
    /\ pc[r] \in {"load_users", "load_events"}
    /\ LET out == Recommend(users_data, events_data, social_graph, req[r], clock)
       IN  /\ events_data' = out.events
           /\ result' = [result EXCEPT ![r] =
                            Returned(out, Saw(users_data, social_graph, last_refresh_time,
                                              users_from, events_from, graph_from, FALSE))]
    /\ pc' = [pc EXCEPT ![r] = "done"]
    /\ UNCHANGED <<conn_vars, score_vars, clock, ticks, store_vars, users_data, social_graph,
                   last_refresh_time, users_from, events_from, graph_from, req>>

\* The store raises while a collection is read: the exception leaves
\* _load_all_data, initialize, refresh_if_needed and the call
LoadRaises(r) ==
    /\ pc[r] \in {"load_users", "load_events"}
    /\ pc' = [pc EXCEPT ![r] = "raised"]
    /\ result' = [result EXCEPT ![r] = Raised]
    /\ UNCHANGED <<conn_vars, score_vars, clock, ticks, store_vars, cache_vars, req>>

\* The wall clock advances
TickSteps == {refresh_interval, refresh_interval + 1}

Tick(d) ==
    /\ ticks < MaxTicks
    /\ ticks' = ticks + 1
    /\ clock' = clock + d
    /\ UNCHANGED <<conn_vars, score_vars, store_vars, cache_vars, pc, req, result>>

---------------------------------------------------------------------------
(* The external store *)

Users == {"u1", "u2", "u3"}

Events == {"e1", "e2"}

User(id, interests, connections, events_attended) ==
    [id |-> id, interests |-> interests, connections |-> connections,
     events_attended |-> events_attended]

Event(id, start_time, category, venue, attendees) ==
    [id |-> id, start_time |-> start_time, category |-> category, venue |-> venue,
     attendees |-> attendees, schedule |-> FALSE, price |-> 0]

\* An event document with a 'price' (0: no price, None or 0)
Priced(event, p) == [event EXCEPT !.price = p]

NaiveStr(t) == [kind |-> "naive_str", t |-> t, off |-> 0]

VenueAt(pos) == [kind |-> "coord", pos |-> pos]

Attendees(list) == [present |-> TRUE, list |-> list]

\* The store when the service starts
StartUsers ==
    << User("u1", <<"tech", "music">>, <<"u2">>, 0),
       User("u2", <<"tech">>, <<"u1">>, 3),
       User("u3", <<"music">>, <<>>, 0) >>

StartEvents ==
    << Event("e1", NaiveStr(StartClock + SecondsPerDay), <<"tech">>, VenueAt(0),
             Attendees(<<"u2">>)),
       Event("e2", NaiveStr(StartClock + 20 * SecondsPerDay), <<"music">>, VenueAt(5),
             Attendees(<<"u1", "u3">>)) >>

\* A user document is updated: a connection id is added to its array
StoreAddConnection(u, c) ==
    /\ store_writes < MaxStoreWrites
    /\ c \notin Range(Get(store_users, u).connections)
    /\ store_users' = [i \in 1..Len(store_users) |->
                          IF store_users[i].id = u
                          THEN [store_users[i] EXCEPT !.connections = Append(@, c)]
                          ELSE store_users[i]]
    /\ store_writes' = store_writes + 1
    /\ UNCHANGED <<conn_vars, score_vars, clock, ticks, store_events, cache_vars, pc, req, result>>

\* An event document is updated: an attendee is added
StoreAddAttendee(e, u) ==
    /\ store_writes < MaxStoreWrites
    /\ u \notin Range(AttendeeList(Get(store_events, e)))
    /\ store_events' = [i \in 1..Len(store_events) |->
                           IF store_events[i].id = e
                           THEN [store_events[i] EXCEPT
                                    !.attendees = Attendees(Append(AttendeeList(store_events[i]), u))]
                           ELSE store_events[i]]
    /\ store_writes' = store_writes + 1
    /\ UNCHANGED <<conn_vars, score_vars, clock, ticks, store_users, cache_vars, pc, req, result>>

---------------------------------------------------------------------------
(* Requests that run concurrently on one event loop *)

Args(kind, user_id, event_id, loc, max_distance_km, limit, lag) ==
    [kind |-> kind, user_id |-> user_id, event_id |-> event_id, loc |-> loc,
     max_distance_km |-> max_distance_km, limit |-> limit, lag |-> lag]

Kinds == {"events", "connections", "event_connections"}

Here(pos) == [given |-> TRUE, pos |-> pos]

Nowhere == [given |-> FALSE, pos |-> 0]

ConcurrentArgs ==
    {Args(k, "u1", "e2", Here(0), 10, MaxLimit, 0) : k \in Kinds}

Init ==
    /\ clock = StartClock
    /\ ticks = 0
    /\ store_users = StartUsers
    /\ store_events = StartEvents
    /\ store_writes = 0
    /\ users_data = <<>>
    /\ events_data = <<>>
    /\ social_graph = NoneGraph
    /\ last_refresh_time = 0
    /\ users_from = 0
    /\ events_from = 0
    /\ graph_from = 0
    /\ pc = [r \in Reqs |-> "idle"]
    /\ req = [r \in Reqs |-> NoArgs]
    /\ result = [r \in Reqs |-> NoResult]
    /\ score_in = NoScoreIn
    /\ score_out = NoScoreOut
    /\ store_connections = {}
    /\ connection_count = [u \in Keys(store_users) |-> 0]
    /\ conn_response = NoResponse

Next ==
    \/ \E r \in Reqs, a \in ConcurrentArgs : Call(r, a)
    \/ \E r \in Reqs : LoadUsers(r)
    \/ \E r \in Reqs : LoadEvents(r)
    \/ \E r \in Reqs : LoadRaises(r)
    \/ \E d \in TickSteps : Tick(d)
    \/ \E u \in {"u3"}, c \in {"u1", "u2"} : StoreAddConnection(u, c)
    \/ \E e \in {"e1"}, u \in {"u3"} : StoreAddAttendee(e, u)

Spec == Init /\ [][Next]_vars

---------------------------------------------------------------------------
(* Calls on a store of any content, one at a time (a store client that      *)
(* blocks, as firestore.client() does, runs each call to its end)           *)

AwareStr(t, off) == [kind |-> "aware_str", t |-> t, off |-> off]

Timestamp(t) == [kind |-> "timestamp", t |-> t, off |-> 0]

NoStartTime == [kind |-> "missing", t |-> 0, off |-> 0]

GarbageStr == [kind |-> "garbage", t |-> 0, off |-> 0]

NoVenue == [kind |-> "missing", pos |-> 0]

VenueNoCoord == [kind |-> "nocoord", pos |-> 0]

NoAttendees == [present |-> FALSE, list |-> <<>>]

Soon == StartClock + refresh_interval

StartTimes ==
    {NoStartTime, GarbageStr, NaiveStr(StartClock - 1), NaiveStr(StartClock),
     AwareStr(Soon, 2 * refresh_interval), Timestamp(StartClock + 20 * SecondsPerDay),
     NaiveStr(StartClock + 30 * SecondsPerDay)}

Categories == {<<>>, <<"tech">>, <<"tech", "art">>}

Venues == {NoVenue, VenueNoCoord, VenueAt(0), VenueAt(1), VenueAt(10), VenueAt(15)}

AttendeeChoices == {NoAttendees, Attendees(<<>>), Attendees(<<"u3", "u2", "u3">>)}

\* The event documents a store may hold under an id
EventChoices(id) ==
    {Event(id, st, <<"tech">>, VenueAt(0), Attendees(<<"u2">>)) : st \in StartTimes}
    \cup {Event(id, NaiveStr(Soon), c, v, Attendees(<<"u2">>)) : c \in Categories, v \in Venues}
    \cup {Event(id, NaiveStr(Soon), <<"tech">>, VenueAt(0), att) : att \in AttendeeChoices}

RankedChoices(id) ==
    {Event(id, NaiveStr(Soon), c, VenueAt(0), Attendees(<<"u1", "u2">>)) : c \in Categories}

ManyEvents ==
    {<<a, b>> : a \in EventChoices("e1"), b \in EventChoices("e2")}
    \cup {<<a, b, c>> : a \in RankedChoices("e1"), b \in RankedChoices("e2"),
                        c \in RankedChoices("e3")}

FewUsers ==
    {<< User("u1", <<"tech", "music">>, c, n), User("u2", <<"tech">>, <<"u1">>, 3),
        User("u3", <<"music">>, <<>>, 0) >> :
        c \in {<<>>, <<"u2">>}, n \in {0, 2}}

ManyUsers ==
    {<< User("u1", i1, c1, 0), User("u2", <<"tech">>, c2, 0), User("u3", i3, c3, 0) >> :
        i1 \in {<<>>, <<"tech", "music">>, <<"tech", "tech">>},
        c1 \in {<<>>, <<"u2">>, <<"u2", "ux">>},
        c2 \in {<<>>, <<"u1">>, <<"u3">>},
        i3 \in {<<"music">>, <<"tech", "music">>},
        c3 \in {<<>>, <<"u1">>, <<"u1", "u2">>}}
    \cup {<< User("u3", <<"tech">>, <<"u2">>, 0), User("u1", <<"tech">>, <<>>, 0) >>}

FewEvents ==
    {StartEvents,
     << Event("e2", NaiveStr(Soon), <<"tech">>, VenueAt(0), Attendees(<<"u3", "u2", "u1", "u3">>)) >>}

\* A crowd: u1 and u2 share their interests and their connections, so that u2
\* is a candidate for u1 with as many mutual connections as the crowd has
\* members
CrowdIds == <<"c1", "c2", "c3", "c4", "c5", "c6", "c7", "c8", "c9", "c10", "c11">>

CrowdUsers ==
    {<< User("u1", <<"tech">>, SubSeq(CrowdIds, 1, n), 0),
        User("u2", <<"tech">>, SubSeq(CrowdIds, 1, n), 0) >>
     \o [i \in 1..n |-> User(CrowdIds[i], <<>>, <<"u1", "u2">>, 0)] :
        n \in {Len(CrowdIds) - 1, Len(CrowdIds)}}

\* Events that u1 and u2 both attend
CrowdEventIds == <<"e1", "e2", "e3", "e4", "e5">>

CrowdEvents ==
    {[i \in 1..m |-> Event(CrowdEventIds[i], NaiveStr(Soon), <<"tech">>, VenueAt(0),
                           Attendees(<<"u1", "u2">>))] :
        m \in {0, Len(CrowdEventIds) - 1, Len(CrowdEventIds)}}

Limits == -1..MaxLimit

RecArgs ==
    {Args("events", u, "", loc, 10, limit, lag) :
        u \in {"u1", "nobody"}, loc \in {Nowhere, Here(0)}, limit \in Limits, lag \in {0, 1}}
    \cup {Args("connections", u, "", Nowhere, 0, limit, 0) :
            u \in {"u1", "nobody"}, limit \in Limits}
    \cup {Args("event_connections", u, e, Nowhere, 0, limit, 0) :
            u \in {"u1", "nobody"}, e \in {"e2", "nothing"}, limit \in Limits}

\* One whole call: refresh_if_needed, then the body
Handle(a) ==
    /\ pc[1] = "idle"
    /\ LET stale == RefreshNeeded(clock, last_refresh_time)
           users == IF stale THEN store_users ELSE users_data
           events == IF stale THEN store_events ELSE events_data
           G == IF stale THEN BuildSocialGraph(users) ELSE social_graph
           last == IF stale THEN clock ELSE last_refresh_time
           by == IF stale THEN 1 ELSE 0
           out == Recommend(users, events, G, a, clock)
       IN  /\ users_data' = users
           /\ events_data' = out.events
           /\ social_graph' = G
           /\ last_refresh_time' = last
           /\ users_from' = by
           /\ events_from' = by
           /\ graph_from' = by
           /\ result' = [result EXCEPT ![1] =
                            Returned(out, Saw(users, G, last, by, by, by, stale))]
    /\ req' = [req EXCEPT ![1] = a]
    /\ pc' = [pc EXCEPT ![1] = "done"]
    /\ UNCHANGED <<conn_vars, score_vars, clock, ticks, store_vars>>

RaiseArgs == {a \in RecArgs : a.limit = MaxLimit /\ a.user_id = "u1" /\ a.lag = 0
                              /\ ~a.loc.given /\ a.event_id \in {"", "e2"}}

\* One whole call in which the store raises while the collection `at` is read
HandleRaises(a, at) ==
    /\ pc[1] = "idle"
    /\ RefreshNeeded(clock, last_refresh_time)
    /\ users_data' = IF at = "events" THEN store_users ELSE users_data
    /\ users_from' = IF at = "events" THEN 1 ELSE users_from
    /\ req' = [req EXCEPT ![1] = a]
    /\ pc' = [pc EXCEPT ![1] = "raised"]
    /\ result' = [result EXCEPT ![1] = Raised]
    /\ UNCHANGED <<conn_vars, score_vars, clock, ticks, store_vars, events_data, social_graph,
                   last_refresh_time, events_from, graph_from>>

\* One whole request that ends in 404 before the service is reached
HandleNotFound(a) ==
    /\ pc[1] = "idle"
    /\ req' = [req EXCEPT ![1] = a]
    /\ pc' = [pc EXCEPT ![1] = "done"]
    /\ result' = [result EXCEPT ![1] = NotFound]
    /\ UNCHANGED <<conn_vars, score_vars, clock, ticks, store_vars, cache_vars>>

NoMaxPrice == [given |-> FALSE, amount |-> 0]

MaxPrice(p) == [given |-> TRUE, amount |-> p]

\* The query of GET /recommendations/{user_id}: latitude and longitude are
\* required
EndpointArgs(user_id, loc, distance, limit, categories, free_only, max_price) ==
    [kind |-> "recommendations_endpoint", user_id |-> user_id, event_id |-> "",
     loc |-> loc, max_distance_km |-> distance, limit |-> limit, lag |-> 0,
     categories |-> categories, free_only |-> free_only, max_price |-> max_price]

Prices == {0, 5, 20}

RecommendationsArgs ==
    {EndpointArgs("u1", Here(0), DefaultMaxDistanceKm, limit, c, f, mp) :
        limit \in Limits, c \in {<<>>, <<"art">>}, f \in BOOLEAN,
        mp \in {NoMaxPrice, MaxPrice(5)}}
    \cup {EndpointArgs("nobody", Here(0), DefaultMaxDistanceKm, MaxLimit, <<>>, FALSE,
                       NoMaxPrice)}

MatchArgs ==
    {Args("match_endpoint", u, e, loc, 0, 0, 0) :
        u \in {"u1", "nobody"}, e \in {"e1", "e2", "nothing"}, loc \in {Nowhere, Here(0)}}

\* "Validate user exists" of both endpoints (lines 249-251, 358-360) and
\* "Validate event exists" of the match endpoint (lines 363-365), read from
\* the store
Validated(a) ==
    /\ Has(store_users, a.user_id)
    /\ a.kind = "match_endpoint" => Has(store_events, a.event_id)

\* One whole request to GET /recommendations/{user_id} or to
\* GET /{event_id}/match/{user_id}: the validation, then refresh_if_needed
\* and the body
HandleEndpoint(a) ==
    IF Validated(a) THEN Handle(a) ELSE HandleNotFound(a)

\* Stores whose events have prices
PricedEvents ==
    {<< Priced(Event("e1", NaiveStr(Soon), <<"tech">>, VenueAt(0), Attendees(<<"u2">>)), p1),
        Priced(Event("e2", NaiveStr(Soon), <<"tech", "art">>, VenueAt(1),
                     Attendees(<<"u2">>)), p2),
        Priced(Event("e3", Timestamp(StartClock + 20 * SecondsPerDay), <<>>, VenueAt(1),
                     NoAttendees), p3) >> :
        p1 \in Prices, p2 \in Prices, p3 \in Prices}

\* Users whose connections list names an id more than once
RepeatedUsers ==
    {<< User("u1", <<"tech", "music">>, <<"u2", "u2", "u2">>, 0),
        User("u2", <<"tech">>, <<"u1">>, 3), User("u3", <<"music">>, <<>>, 0) >>}

RecInit ==
    /\ clock = StartClock
    /\ ticks = 0
    /\ \/ store_users \in FewUsers /\ store_events \in ManyEvents
       \/ store_users \in ManyUsers /\ store_events \in FewEvents
       \/ store_users \in CrowdUsers /\ store_events \in CrowdEvents
       \/ store_users \in FewUsers \cup RepeatedUsers /\ store_events \in PricedEvents
    /\ store_writes = 0
    /\ users_data = <<>>
    /\ events_data = <<>>
    /\ social_graph = NoneGraph
    /\ last_refresh_time = 0
    /\ users_from = 0
    /\ events_from = 0
    /\ graph_from = 0
    /\ pc = [r \in Reqs |-> "idle"]
    /\ req = [r \in Reqs |-> NoArgs]
    /\ result = [r \in Reqs |-> NoResult]
    /\ score_in = NoScoreIn
    /\ score_out = NoScoreOut
    /\ store_connections = {}
    /\ connection_count = [u \in Keys(store_users) |-> 0]
    /\ conn_response = NoResponse

RecNext ==
    \/ \E a \in RecArgs : Handle(a)
    \/ \E a \in RaiseArgs, at \in {"users", "events"} : HandleRaises(a, at)
    \/ \E a \in RecommendationsArgs \cup MatchArgs : HandleEndpoint(a)

RecSpec == RecInit /\ [][RecNext]_vars

---------------------------------------------------------------------------
(* The score functions, each called once on arguments of any content        *)

MaxDays == 36

\* Raw scores: the fortieths from -0.1 to 1.2
RawScores == {k * (Scale \div 40) : k \in -4..48}

InflateInputs ==
    {[NoScoreIn EXCEPT !.fn = "inflate", !.score = p[1], !.other = p[2]] :
        p \in {q \in RawScores \X RawScores : q[1] <= q[2]}}

EventTimes ==
    {NoneTime, SomeTime(StartClock - 1), SomeTime(StartClock - SecondsPerDay)}
    \cup {SomeTime(StartClock + d * SecondsPerDay + r) :
             d \in 0..MaxDays, r \in {0, 1, SecondsPerDay - 1}}

TimeInputs == {[NoScoreIn EXCEPT !.fn = "time", !.event_time = t] : t \in EventTimes}

TagLists ==
    {<<>>, <<"tech">>, <<"music">>, <<"tech", "music">>, <<"tech", "art">>,
     <<"tech", "tech">>, <<"art", "art", "tech">>, <<"tech", "music", "art">>}

InterestInputs ==
    {[NoScoreIn EXCEPT !.fn = "interest", !.user_interests = u, !.event_categories = c] :
        u \in TagLists, c \in TagLists}

SocialInputs ==
    {[NoScoreIn EXCEPT !.fn = "social", !.users = us, !.events = es,
                       !.user_id = u, !.event_id = e] :
        us \in ManyUsers, es \in FewEvents, u \in {"u1", "u3", "nobody"},
        e \in {"e2", "nothing"}}

\* _inflate_score(score), and _inflate_score(other) of a second call
ApplyInflateScore ==
    /\ score_in.fn = "inflate"
    /\ ~score_out.done
    /\ score_out' = [done |-> TRUE, value |-> InflateScore(score_in.score),
                     other |-> InflateScore(score_in.other)]
    /\ UNCHANGED <<conn_vars, score_in, clock, ticks, store_vars, cache_vars, pc, req, result>>

\* _calculate_time_relevance_score(event_time), datetime.now() being clock
ApplyTimeRelevanceScore ==
    /\ score_in.fn = "time"
    /\ ~score_out.done
    /\ score_out' = [done |-> TRUE,
                     value |-> CalculateTimeRelevanceScore(score_in.event_time, clock),
                     other |-> 0]
    /\ UNCHANGED <<conn_vars, score_in, clock, ticks, store_vars, cache_vars, pc, req, result>>

\* _calculate_interest_score(user_interests, event_categories)
ApplyInterestScore ==
    /\ score_in.fn = "interest"
    /\ ~score_out.done
    /\ score_out' = [done |-> TRUE,
                     value |-> CalculateInterestScore(score_in.user_interests,
                                                      score_in.event_categories),
                     other |-> 0]
    /\ UNCHANGED <<conn_vars, score_in, clock, ticks, store_vars, cache_vars, pc, req, result>>

\* _calculate_social_score(user_id, event_id) on the cache of users and events
\* and the graph built from it
ApplySocialScore ==
    /\ score_in.fn = "social"
    /\ ~score_out.done
    /\ score_out' = [done |-> TRUE,
                     value |-> CalculateSocialScore(BuildSocialGraph(score_in.users),
                                                    score_in.events, score_in.user_id,
                                                    score_in.event_id),
                     other |-> 0]
    /\ UNCHANGED <<conn_vars, score_in, clock, ticks, store_vars, cache_vars, pc, req, result>>

ScoreInit ==
    /\ clock = StartClock
    /\ ticks = 0
    /\ store_users = StartUsers
    /\ store_events = StartEvents
    /\ store_writes = 0
    /\ users_data = <<>>
    /\ events_data = <<>>
    /\ social_graph = NoneGraph
    /\ last_refresh_time = 0
    /\ users_from = 0
    /\ events_from = 0
    /\ graph_from = 0
    /\ pc = [r \in Reqs |-> "idle"]
    /\ req = [r \in Reqs |-> NoArgs]
    /\ result = [r \in Reqs |-> NoResult]
    /\ score_in \in InflateInputs \cup TimeInputs \cup InterestInputs \cup SocialInputs
    /\ score_out = NoScoreOut
    /\ store_connections = {}
    /\ connection_count = [u \in Keys(store_users) |-> 0]
    /\ conn_response = NoResponse

ScoreNext ==
    \/ ApplyInflateScore
    \/ ApplyTimeRelevanceScore
    \/ ApplyInterestScore
    \/ ApplySocialScore

ScoreSpec == ScoreInit /\ [][ScoreNext]_vars

---------------------------------------------------------------------------
(* api/connections.py: POST /request and POST /respond/{connection_id}.     *)
(* The store client blocks, so each handler runs to its end before the next *)
(* request is served.                                                       *)

\* A document of the 'connections' collection. Its id is generated by the
\* store; the handlers find a document by its two users, never by its id.
Connection(from_user_id, to_user_id, status) ==
    [from_user_id |-> from_user_id, to_user_id |-> to_user_id, status |-> status]

Response(op, user_id, other_id, status) ==
    [op |-> op, user_id |-> user_id, other_id |-> other_id, status |-> status]

\* FirebaseService.get_user_connections(user_id) with no status filter
GetUserConnections(user_id) ==
    {conn \in store_connections :
        conn.from_user_id = user_id \/ conn.to_user_id = user_id}

\* the documents of conns between a and b, in either direction
Between(conns, a, b) ==
    {conn \in conns : \/ conn.from_user_id = a /\ conn.to_user_id = b
                      \/ conn.from_user_id = b /\ conn.to_user_id = a}

\* FirebaseService.update_user(id, {'connections': connections})
UpdateUserConnections(users, id, connections) ==
    [i \in 1..Len(users) |->
        IF users[i].id = id THEN [users[i] EXCEPT !.connections = connections]
        ELSE users[i]]

\* POST /request, lines 16-47
CreateConnectionRequest(from_user_id, to_user_id) ==
    /\ IF ~Has(store_users, from_user_id) \/ ~Has(store_users, to_user_id)
       THEN /\ conn_response' = Response("request", from_user_id, to_user_id, "not_found")
            /\ UNCHANGED store_connections
       ELSE IF Between(GetUserConnections(from_user_id), from_user_id, to_user_id) # {}
       THEN /\ conn_response' = Response("request", from_user_id, to_user_id, "exists")
            /\ UNCHANGED store_connections
       ELSE /\ store_connections' =
                    store_connections \cup {Connection(from_user_id, to_user_id, "pending")}
            /\ conn_response' = Response("request", from_user_id, to_user_id, "success")
    /\ UNCHANGED <<connection_count, score_vars, clock, ticks, store_vars, cache_vars,
                   pc, req, result>>

\* The accept branch of POST /respond, lines 87-123, on the document found
AcceptConnection(connection) ==
    LET from_user_id == connection.from_user_id
        to_user_id == connection.to_user_id
        from_user == Get(store_users, from_user_id)
        to_user == Get(store_users, to_user_id)
        from_count == connection_count[from_user_id] + 1
        to_count == connection_count[to_user_id] + 1
        from_connections == IF to_user_id \in Range(from_user.connections)
                            THEN from_user.connections
                            ELSE Append(from_user.connections, to_user_id)
        to_connections == IF from_user_id \in Range(to_user.connections)
                          THEN to_user.connections
                          ELSE Append(to_user.connections, from_user_id)
    IN  /\ connection_count[from_user_id] < MaxConnectionCount
        /\ connection_count[to_user_id] < MaxConnectionCount
        /\ store_connections' = (store_connections \ {connection})
                                    \cup {[connection EXCEPT !.status = "accepted"]}
        /\ IF Has(store_users, from_user_id) /\ Has(store_users, to_user_id)
           THEN /\ store_users' =
                       UpdateUserConnections(
                           UpdateUserConnections(store_users, from_user_id, from_connections),
                           to_user_id, to_connections)
                /\ connection_count' =
                       [[connection_count EXCEPT ![from_user_id] = from_count]
                           EXCEPT ![to_user_id] = to_count]
           ELSE UNCHANGED <<store_users, connection_count>>

\* POST /respond/{connection_id}, lines 50-131: response.user_id answers the
\* request of response.request_id
RespondToConnectionRequest(user_id, request_id, status) ==
    /\ LET found == Between(GetUserConnections(user_id), user_id, request_id)
       IN  IF status \notin {"accept", "decline"}
           THEN /\ conn_response' = Response("respond", user_id, request_id, "invalid")
                /\ UNCHANGED <<store_connections, store_users, connection_count>>
           ELSE IF found = {}
           THEN /\ conn_response' = Response("respond", user_id, request_id, "not_found")
                /\ UNCHANGED <<store_connections, store_users, connection_count>>
           ELSE \E connection \in found :
                   IF connection.to_user_id # user_id
                   THEN /\ conn_response' =
                               Response("respond", user_id, request_id, "forbidden")
                        /\ UNCHANGED <<store_connections, store_users, connection_count>>
                   ELSE IF status = "accept"
                   THEN /\ AcceptConnection(connection)
                        /\ conn_response' =
                               Response("respond", user_id, request_id, "accepted")
                   ELSE /\ store_connections' = store_connections \ {connection}
                        /\ conn_response' =
                               Response("respond", user_id, request_id, "declined")
                        /\ UNCHANGED <<store_users, connection_count>>
    /\ UNCHANGED <<score_vars, clock, ticks, store_events, store_writes, cache_vars,
                   pc, req, result>>

\* Users with connection_count 0 and no connections
ConnUsers == << User("u1", <<>>, <<>>, 0), User("u2", <<>>, <<>>, 0) >>

ConnIds == Keys(ConnUsers) \cup {"nobody"}

ConnInit ==
    /\ clock = StartClock
    /\ ticks = 0
    /\ store_users = ConnUsers
    /\ store_events = <<>>
    /\ store_writes = 0
    /\ users_data = <<>>
    /\ events_data = <<>>
    /\ social_graph = NoneGraph
    /\ last_refresh_time = 0
    /\ users_from = 0
    /\ events_from = 0
    /\ graph_from = 0
    /\ pc = [r \in Reqs |-> "idle"]
    /\ req = [r \in Reqs |-> NoArgs]
    /\ result = [r \in Reqs |-> NoResult]
    /\ score_in = NoScoreIn
    /\ score_out = NoScoreOut
    /\ store_connections = {}
    /\ connection_count = [u \in Keys(store_users) |-> 0]
    /\ conn_response = NoResponse

ConnNext ==
    \/ \E f \in ConnIds, t \in ConnIds : CreateConnectionRequest(f, t)
    \/ \E u \in ConnIds, o \in ConnIds, s \in {"accept", "decline", "block"} :
            RespondToConnectionRequest(u, o, s)

ConnSpec == ConnInit /\ [][ConnNext]_vars

---------------------------------------------------------------------------
(* Claims on the cache *)

InFlight == {r \in Reqs : pc[r] \in {"load_users", "load_events"}}

ReturnedReqs == {r \in Reqs : result[r].status = "returned"}

C3_BoundedStaleness ==
    \A r \in ReturnedReqs :
        /\ result[r].saw.at - result[r].saw.last_refresh_time <= refresh_interval
        /\ ~result[r].saw.graph_none
        /\ result[r].saw.users_from # 0
        /\ result[r].saw.events_from # 0

\* C3 witness: the first call has loaded the cache, and a later call has read
\* it without a refresh exactly refresh_interval later.
C3_Witness ==
    /\ \E r \in ReturnedReqs : result[r].saw.refreshed
    /\ \E r \in ReturnedReqs :
          /\ ~result[r].saw.refreshed
          /\ result[r].saw.at - result[r].saw.last_refresh_time = refresh_interval

\* C4: a call of any of the three kinds whose load the store fails ends in
\* the error, and while no load has completed no call has returned a list.
C4_FirstLoadFailurePropagates ==
    /\ \A r \in Reqs : pc[r] = "raised" => result[r].status = "raised"
    /\ last_refresh_time = 0 => ReturnedReqs = {}

\* C4 witness: the very first load has failed after users_data was read, for
\* a call of each kind, and nothing has been loaded since.
C4_Witness ==
    /\ last_refresh_time = 0
    /\ users_data # <<>>
    /\ \A k \in Kinds : \E r \in Reqs : req[r].kind = k /\ result[r].status = "raised"

---------------------------------------------------------------------------
(* Claims on the recommenders *)

TheCall == req[1]

Items == result[1].items

Ranked == result[1].ranked

ReturnedCall(kind) == TheCall.kind = kind /\ result[1].status = "returned"

Ids(entries) == {entries[i].id : i \in 1..Len(entries)}

\* An event of the cache that the start-time filter of lines 254-289 lets
\* through: its start_time parses, to a wall time not before now
FutureWellFormed(event, now) ==
    /\ event.start_time.kind \notin {"missing", "garbage"}
    /\ event.start_time.t >= now

\* The moment a stored start_time names, on the server's clock
StartInstant(st) == st.t - st.off

\* C5: no event returned by get_event_recommendations starts before the call
\* time now, and no event whose start_time is missing or unparsable is
\* returned.
C5_NoPastEvents ==
    ReturnedCall("events") =>
        \A i \in 1..Len(Items) :
            LET st == Get(events_data, Items[i].id).start_time
            IN  /\ st.kind \notin {"missing", "garbage"}
                /\ StartInstant(st) >= clock

\* C6: with a location supplied, an event that passes the start-time filter
\* is left out of the ranking exactly when its venue has no usable coordinate or is farther
\* than max_distance_km.
C6_LocationFilter ==
    (ReturnedCall("events") /\ TheCall.loc.given /\ Has(users_data, TheCall.user_id)) =>
        \A i \in 1..Len(events_data) :
            FutureWellFormed(events_data[i], clock) =>
                (events_data[i].id \notin Ids(Ranked)
                 <=> \/ events_data[i].venue.kind # "coord"
                     \/ CalculateDistance(TheCall.loc.pos, events_data[i].venue.pos)
                           > TheCall.max_distance_km)

\* C7: without a location, the events ranked for a user of the cache are
\* exactly the events of the cache that pass the start-time filter.
C7_NoLocationNoExclusion ==
    (ReturnedCall("events") /\ ~TheCall.loc.given /\ Has(users_data, TheCall.user_id)) =>
        Ids(Ranked) = {events_data[i].id :
                         i \in {j \in 1..Len(events_data) :
                                  FutureWellFormed(events_data[j], clock)}}

\* C7 witness: a call without location has ranked an event without venue and
\* an event whose venue is 15 km from longitude 0.
C7_Witness ==
    /\ ReturnedCall("events")
    /\ ~TheCall.loc.given
    /\ \E i, j \in 1..Len(events_data) :
          /\ {events_data[i].id, events_data[j].id} \subseteq Ids(Ranked)
          /\ events_data[i].venue.kind = "nocoord"
          /\ events_data[j].venue = VenueAt(15)

\* C8: when the cache has been read, a call of get_event_recommendations or
\* get_connection_recommendations for a user id that is not in users_data
\* returns the empty list, and so does a call of
\* get_event_based_connection_recommendations when the user id is not in
\* users_data or the event id is not in events_data.
C8_UnknownIdsGiveEmptyList ==
    (result[1].status = "returned" /\ TheCall.kind \in Kinds
     /\ \/ ~Has(users_data, TheCall.user_id)
        \/ TheCall.kind = "event_connections" /\ ~Has(events_data, TheCall.event_id)) =>
        Items = <<>>

\* C8 witness: get_event_based_connection_recommendations has returned for a
\* user that is not in the cache, at an event that is and has attendees.
C8_Witness ==
    /\ ReturnedCall("event_connections")
    /\ ~Has(users_data, TheCall.user_id)
    /\ Has(events_data, TheCall.event_id)
    /\ Len(AttendeeList(Get(events_data, TheCall.event_id))) > 1
    /\ TheCall.limit > 0

\* The list a call sorts, in the order the cache iterates
Unsorted ==
    LET user == Get(users_data, TheCall.user_id)
    IN  CASE TheCall.kind = "events" ->
                 RecommendedEvents(social_graph, events_data, user, TheCall, clock)
          [] TheCall.kind = "connections" ->
                 PotentialConnections(users_data, events_data, social_graph, user,
                                      TheCall.user_id)
          [] OTHER ->
                 EventRecommendations(users_data, social_graph, user, TheCall.user_id,
                     EventAttendeeCandidates(Get(events_data, TheCall.event_id), user,
                                             TheCall.user_id))

\* The place of the k-th entry of s in the stable descending order of s
PlaceOf(s, k) ==
    1 + Cardinality({j \in 1..Len(s) : s[j].score > s[k].score})
      + Cardinality({j \in 1..(k - 1) : s[j].score = s[k].score})

\* C9: for limit >= 0 the list returned has at most limit entries and is the
\* first min(limit, n) entries of the full list of n candidates, which is in
\* non-increasing order of score and holds every candidate, candidates of
\* equal score in the order the cache iterates them.
C9_SortedStableTruncated ==
    (result[1].status = "returned" /\ TheCall.kind \in Kinds
     /\ Has(users_data, TheCall.user_id)
     /\ (TheCall.kind = "event_connections" => Has(events_data, TheCall.event_id))) =>
        /\ Len(Ranked) = Len(Unsorted)
        /\ \A k \in 1..Len(Unsorted) : Ranked[PlaceOf(Unsorted, k)] = Unsorted[k]
        /\ \A i \in 1..(Len(Ranked) - 1) : Ranked[i].score >= Ranked[i + 1].score
        /\ TheCall.limit >= 0 =>
              /\ Len(Items) = Min(TheCall.limit, Len(Ranked))
              /\ \A i \in 1..Len(Items) : Items[i] = Ranked[i]

\* C9 witness: three events were ranked, the first of the cache last, the
\* other two with equal scores in the order of the cache, and the call
\* returned the first two.
C9_Witness ==
    /\ ReturnedCall("events")
    /\ Len(Ranked) = 3
    /\ TheCall.limit = 2
    /\ Len(Items) = 2
    /\ Ranked[1].score = Ranked[2].score
    /\ Ranked[2].score > Ranked[3].score
    /\ Ranked[3].id = events_data[1].id
    /\ Ranked[1].id = events_data[2].id

\* C10 as stated: in a list returned by get_event_recommendations no event
\* comes after an event of strictly lower original_score.
C10_InflationNeverReorders ==
    ReturnedCall("events") =>
        \A i, j \in 1..Len(Items) :
            i < j => Items[j].original_score <= Items[i].original_score

\* C10 as amended: an event comes after an event of strictly lower
\* original_score only when both original scores are at least 0.9, which
\* inflation caps to the same score.
C10_InflationReordersOnlyAtCap ==
    ReturnedCall("events") =>
        \A i, j \in 1..Len(Items) :
            (i < j /\ Items[j].original_score > Items[i].original_score) =>
                /\ 10 * Items[i].original_score >= 9 * Scale
                /\ Items[i].score = Items[j].score

\* C10 witness: a returned list holds an event of original_score above 0.9
\* before an event of lower original_score, and both sides of 0.5 are in it.
C10_Witness ==
    /\ ReturnedCall("events")
    /\ \E i, j \in 1..Len(Items) :
          /\ i < j
          /\ Items[i].original_score > Items[j].original_score
          /\ 10 * Items[i].original_score > 9 * Scale
    /\ \E i \in 1..Len(Items) : 2 * Items[i].original_score <= Scale

\* C13: every component score in the score_details of an event returned by
\* get_event_recommendations lies in [0, 1].
C13_ScoreDetailsInUnitInterval ==
    ReturnedCall("events") =>
        \A i \in 1..Len(Items) :
            LET d == Items[i].score_details
            IN  /\ d.interest_score \in 0..Scale
                /\ d.social_score \in 0..Scale
                /\ d.location_score \in 0..Scale
                /\ d.time_score \in 0..Scale

\* The users that are connected to u in the cache, in either direction
ConnectedTo(users, u) ==
    {v \in Keys(users) : \/ v \in Range(Get(users, u).connections)
                         \/ u \in Range(Get(users, v).connections)}

\* C14: neither connection recommender returns the requesting user or a
\* user whose id is in the requesting user's connections list.
C14_NoSelfNoConnected ==
    (result[1].status = "returned" /\ TheCall.kind \in {"connections", "event_connections"}
     /\ Has(users_data, TheCall.user_id)) =>
        \A i \in 1..Len(Ranked) :
            /\ Ranked[i].connection_id # TheCall.user_id
            /\ Ranked[i].connection_id
                  \notin Range(Get(users_data, TheCall.user_id).connections)

\* C14 witness: get_event_based_connection_recommendations has returned a
\* user of an event that the requesting user and one of its connections
\* attend too.
C14_Witness ==
    /\ ReturnedCall("event_connections")
    /\ Has(users_data, TheCall.user_id) /\ Has(events_data, TheCall.event_id)
    /\ Len(Items) > 0
    /\ LET A == Range(AttendeeList(Get(events_data, TheCall.event_id)))
       IN  /\ TheCall.user_id \in A
           /\ A \cap Range(Get(users_data, TheCall.user_id).connections) # {}

\* C15: every user returned by get_connection_recommendations shares a
\* neighbour with the requesting user without being connected to it, or
\* attended an event the requesting user attended.
C15_CandidatePool ==
    (ReturnedCall("connections") /\ Has(users_data, TheCall.user_id)) =>
        \A i \in 1..Len(Items) :
            LET u == TheCall.user_id
                v == Items[i].connection_id
            IN  \/ /\ ConnectedTo(users_data, u) \cap ConnectedTo(users_data, v) # {}
                   /\ v \notin ConnectedTo(users_data, u)
                \/ \E k \in 1..Len(events_data) :
                      {u, v} \subseteq Range(AttendeeList(events_data[k]))

\* The cache of events without its i-th event
WithoutEvent(events, i) == SubSeq(events, 1, i - 1) \o SubSeq(events, i + 1, Len(events))

\* An event whose start_time is missing, unparsable or of a wrong type
Malformed(event) == event.start_time.kind \in {"missing", "garbage"}

\* C16: get_event_recommendations on a cache that holds a malformed event
\* returns, without that event, the list it returns on the cache without
\* that event, and returns the same list when called again.
C16_MalformedEventSkipped ==
    (ReturnedCall("events") /\ Has(users_data, TheCall.user_id)) =>
        /\ \A i \in 1..Len(store_events) :
              Malformed(store_events[i]) =>
                  /\ store_events[i].id \notin Ids(Ranked)
                  /\ GetEventRecommendations(users_data, WithoutEvent(store_events, i),
                                             social_graph, TheCall, clock).items = Items
        /\ (\E i \in 1..Len(events_data) : Malformed(events_data[i])) =>
              GetEventRecommendations(users_data, events_data, social_graph,
                                      TheCall, clock).items = Items

\* C16 witness: the first event of the cache has an unparsable start_time
\* and the call has returned the event after it.
C16_Witness ==
    /\ ReturnedCall("events")
    /\ Len(events_data) > 1
    /\ events_data[1].start_time.kind = "garbage"
    /\ Len(Items) > 0
    /\ Items[1].id = events_data[2].id

\* C21 as stated: without a location every returned event reports the
\* location score 0.5, and a location score of 0 is reported only when a
\* location was supplied.
C21_NeutralLocationScore ==
    ReturnedCall("events") =>
        \A i \in 1..Len(Items) :
            /\ ~TheCall.loc.given => 2 * Items[i].score_details.location_score = Scale
            /\ Items[i].score_details.location_score = 0 => TheCall.loc.given

\* C22: original_score is 0.5 interest + 0.1 social + 0.2 location + 0.2 time
\* when the user has attended fewer than 2 events and has fewer than 3
\* connections, 0.35 / 0.25 / 0.2 / 0.2 otherwise; four scores of 1 give 1;
\* and score is _inflate_score(original_score).
C22_WeightedSumInflatedOnce ==
    (ReturnedCall("events") /\ Has(users_data, TheCall.user_id)) =>
        LET user == Get(users_data, TheCall.user_id)
            new == /\ user.events_attended < 2
                   /\ Cardinality({user.connections[k] : k \in DOMAIN user.connections}) < 3
        IN  \A i \in 1..Len(Items) :
                LET d == Items[i].score_details
                    x == Items[i].original_score
                    v == Items[i].score
                IN  /\ new => 100 * x = 50 * d.interest_score + 10 * d.social_score
                                        + 20 * d.location_score + 20 * d.time_score
                    /\ ~new => 100 * x = 35 * d.interest_score + 25 * d.social_score
                                         + 20 * d.location_score + 20 * d.time_score
                    /\ (d.interest_score = Scale /\ d.social_score = Scale
                        /\ d.location_score = Scale /\ d.time_score = Scale) => x = Scale
                    /\ 2 * x <= Scale => 20 * v = Min(18 * Scale, 20 * x + 5 * Scale)
                    /\ 2 * x > Scale => 80 * v = Min(72 * Scale, 30 * x + 45 * Scale)

\* C22 witness: a user with 2 events attended and no connection has been
\* returned an event whose interest and social scores differ and whose
\* score a second inflation would change.
C22_Witness ==
    /\ ReturnedCall("events")
    /\ Has(users_data, TheCall.user_id)
    /\ Get(users_data, TheCall.user_id).events_attended = 2
    /\ Get(users_data, TheCall.user_id).connections = <<>>
    /\ \E i \in 1..Len(Items) :
          /\ Items[i].score_details.interest_score # Items[i].score_details.social_score
          /\ Items[i].original_score > 0
          /\ 10 * Items[i].score < 9 * Scale

\* C23: once _build_social_graph has run, the nodes of social_graph are the
\* user ids of users_data, each with that user's interests, and {A, B} is an
\* edge exactly when both are users and either lists the other.
C23_GraphOfUsers ==
    ~social_graph.is_none =>
        /\ social_graph.nodes = Keys(users_data)
        /\ \A k \in Keys(users_data) :
              social_graph.interests[k]
                  = {Get(users_data, k).interests[j] : j \in DOMAIN Get(users_data, k).interests}
        /\ \A e \in social_graph.edges : e \subseteq Keys(users_data)
        /\ \A a, b \in Keys(users_data) :
              {a, b} \in social_graph.edges <=> b \in ConnectedTo(users_data, a)

\* C23 witness: the graph has been built of users one of whom has no
\* connection at all, one lists an id that is no user, and two are joined
\* by the list of one of them only.
C23_Witness ==
    /\ ~social_graph.is_none
    /\ \E k \in Keys(users_data) : ConnectedTo(users_data, k) = {}
    /\ \E k \in Keys(users_data) :
          ~(Range(Get(users_data, k).connections) \subseteq Keys(users_data))
    /\ \E a, b \in Keys(users_data) :
          /\ {a, b} \in social_graph.edges
          /\ b \in Range(Get(users_data, a).connections)
          /\ a \notin Range(Get(users_data, b).connections)

\* C24 as stated: a call leaves the cache as its refresh loaded it.
C24_CallsReadOnly ==
    (result[1].status = "returned" /\ TheCall.kind \in Kinds) =>
        /\ users_data = store_users
        /\ events_data = store_events
        /\ social_graph = BuildSocialGraph(store_users)

\* C26 as stated: when the store has raised during a reload, users_data,
\* events_data, social_graph and last_refresh_time are what they were before
\* the reload (here: as constructed).
C26_FailedRefreshLeavesCache ==
    result[1].status = "raised" =>
        /\ users_data = <<>>
        /\ events_data = <<>>
        /\ social_graph = NoneGraph
        /\ last_refresh_time = 0

\* C27 as stated: get_connection_recommendations returns no user that is a
\* neighbour of the requesting user in social_graph.
C27_NoGraphNeighbourReturned ==
    (ReturnedCall("connections") /\ Has(users_data, TheCall.user_id)) =>
        \A i \in 1..Len(Items) :
            Items[i].connection_id \notin Neighbors(social_graph, TheCall.user_id)

\* C25 as stated: the original_score of every connection that either
\* connection recommender returns lies in [0, 1].
C25_ConnectionScoreInUnitInterval ==
    (ReturnedCall("connections") \/ ReturnedCall("event_connections")) =>
        \A i \in 1..Len(Items) :
            Items[i].original_score >= 0 /\ Items[i].original_score <= Scale

\* The entries of `ranked` that pass the price filter of the call
Affordable(ranked) == PriceFilter(ranked, TheCall.free_only, TheCall.max_price)

\* C28 as stated: with free_only or max_price set (and no categories), GET
\* /recommendations/{user_id} returns the first `limit` of the future
\* in-range events that satisfy the price filter, in descending score order:
\* `limit` of them when there are that many, and all of them otherwise.
C28_PriceFilteredTopLimit ==
    (/\ ReturnedCall("recommendations_endpoint")
     /\ TheCall.free_only \/ TheCall.max_price.given
     /\ Len(TheCall.categories) = 0
     /\ TheCall.limit >= 0) =>
        Items = SubSeq(Affordable(Ranked), 1, Min(TheCall.limit, Len(Affordable(Ranked))))

\* The entry of get_event_recommendations for the event of the call, when
\* called for the same user and location with its default max_distance_km
DefaultEntries ==
    LET a == [TheCall EXCEPT !.kind = "events", !.max_distance_km = DefaultMaxDistanceKm,
                             !.limit = Len(events_data)]
        ranked == GetEventRecommendations(users_data, events_data, social_graph, a,
                                          clock).ranked
    IN  {ranked[i] : i \in {j \in 1..Len(ranked) : ranked[j].id = TheCall.event_id}}

\* C29 as stated: with a location supplied, the match-score endpoint reports
\* the score_details, the original_score and the score of the entry that
\* get_event_recommendations has for the event.
C29_MatchEqualsRecommendation ==
    (ReturnedCall("match_endpoint") /\ TheCall.loc.given) =>
        \A e \in DefaultEntries :
            /\ Items[1].score_details = e.score_details
            /\ Items[1].original_score = e.original_score
            /\ Items[1].score = e.score

---------------------------------------------------------------------------
(* Claims on the connection requests *)

Occurrences(s, x) == Cardinality({i \in 1..Len(s) : s[i] = x})

\* C30 as stated: after any sequence of requests and responses, every user's
\* connection_count is the length of the user's connections array, and the
\* two users of an accepted connection list each other exactly once.
C30_CountIsLengthOfConnections ==
    /\ \A i \in 1..Len(store_users) :
          connection_count[store_users[i].id] = Len(store_users[i].connections)
    /\ \A conn \in store_connections :
          conn.status = "accepted" =>
            /\ Occurrences(Get(store_users, conn.from_user_id).connections,
                           conn.to_user_id) = 1
            /\ Occurrences(Get(store_users, conn.to_user_id).connections,
                           conn.from_user_id) = 1

---------------------------------------------------------------------------
(* Claims on the score functions *)

Applied(fn) == score_out.done /\ score_in.fn = fn

\* C11: for raw scores x < y, _inflate_score(x) <= _inflate_score(y).
C11_InflateMonotonic ==
    (Applied("inflate") /\ score_in.score < score_in.other) =>
        score_out.value <= score_out.other

\* C11 witness: the two breakpoints 0.5 and 0.9 have been inflated.
C11_Witness ==
    /\ Applied("inflate")
    /\ 2 * score_in.score = Scale
    /\ 10 * score_in.other = 9 * Scale
    /\ score_out.value < score_out.other

\* C12: _inflate_score(x) <= 0.9 for every x, and _inflate_score(x) >= x for
\* every x of [0, 0.9].
C12_InflateBounded ==
    Applied("inflate") =>
        /\ 10 * score_out.value <= 9 * Scale
        /\ (score_in.score >= 0 /\ 10 * score_in.score <= 9 * Scale) =>
              score_out.value >= score_in.score

\* C12 witness: a raw score above 0.9 has been inflated (to the cap), next to
\* a raw score of 0.9, which inflation leaves as it is.
C12_Witness ==
    /\ Applied("inflate")
    /\ 10 * score_in.score = 9 * Scale
    /\ score_out.value = score_in.score
    /\ score_in.other = Scale
    /\ 10 * score_out.other = 9 * Scale

\* C17: _inflate_score(x) = min(0.9, x + 0.25) for x <= 0.5 and
\* min(0.9, x + 0.25 * (1 - (x - 0.5) / 0.4)) = min(0.9, 0.375 x + 0.5625)
\* for x > 0.5; so 0.3 gives 0.55, 0.5 gives 0.75, 0.7 gives 0.825, 0.9 gives
\* 0.9 and 0.95 gives 0.9.
C17_InflateExact ==
    Applied("inflate") =>
        LET x == score_in.score
            v == score_out.value
        IN  /\ 2 * x <= Scale => 20 * v = Min(18 * Scale, 20 * x + 5 * Scale)
            /\ 2 * x > Scale => 80 * v = Min(72 * Scale, 30 * x + 45 * Scale)
            /\ 10 * x = 3 * Scale => 100 * v = 55 * Scale
            /\ 2 * x = Scale => 4 * v = 3 * Scale
            /\ 10 * x = 7 * Scale => 1000 * v = 825 * Scale
            /\ 10 * x = 9 * Scale => 10 * v = 9 * Scale
            /\ 100 * x = 95 * Scale => 10 * v = 9 * Scale

\* C17 witness: 0.7 has been inflated to 0.825 and 0.95 to 0.9.
C17_Witness ==
    /\ Applied("inflate")
    /\ 10 * score_in.score = 7 * Scale
    /\ 1000 * score_out.value = 825 * Scale
    /\ 100 * score_in.other = 95 * Scale
    /\ 10 * score_out.other = 9 * Scale

\* C18: with d the whole days from now to the event,
\* _calculate_time_relevance_score is 0 for a past or missing time, 1 - d/14
\* for d <= 14, 0.5 - (d - 14)/30 for 15 <= d <= 30 and 0.3 for d > 30.
C18_TimeScoreByDays ==
    Applied("time") =>
        LET et == score_in.event_time
            d == (et.t - clock) \div SecondsPerDay
            v == score_out.value
        IN  IF ~et.present \/ et.t < clock
            THEN v = 0
            ELSE /\ d <= 14 => 14 * v = Scale * (14 - d)
                 /\ (15 <= d /\ d <= 30) => 30 * v = 15 * Scale - Scale * (d - 14)
                 /\ d > 30 => 10 * v = 3 * Scale
                 /\ d = 0 => v = Scale
                 /\ d = 14 => v = 0
                 /\ d = 35 => 10 * v = 3 * Scale

\* C18 witness: an event 35 days and one second ahead has scored 0.3.
C18_Witness ==
    /\ Applied("time")
    /\ score_in.event_time = SomeTime(clock + 35 * SecondsPerDay + 1)
    /\ 10 * score_out.value = 3 * Scale

\* C19: _calculate_interest_score is the number of distinct tags the two
\* lists share over the number of distinct tags of event_categories, and 0
\* when either list is empty; (tech, music) against (tech, art) gives 0.5.
C19_InterestScoreFraction ==
    Applied("interest") =>
        LET us == {score_in.user_interests[i] : i \in DOMAIN score_in.user_interests}
            cs == {score_in.event_categories[i] : i \in DOMAIN score_in.event_categories}
            v == score_out.value
        IN  /\ (us = {} \/ cs = {}) => v = 0
            /\ (us # {} /\ cs # {}) =>
                  v * Cardinality(cs) = Scale * Cardinality({t \in cs : t \in us})
            /\ (us = {"tech", "music"} /\ cs = {"tech", "art"}) => 2 * v = Scale

\* C19 witness: (tech, music) against (art, art, tech), a list with a
\* duplicate, has scored 0.5.
C19_Witness ==
    /\ Applied("interest")
    /\ score_in.user_interests = <<"tech", "music">>
    /\ score_in.event_categories = <<"art", "art", "tech">>
    /\ 2 * score_out.value = Scale

\* C20: _calculate_social_score is the number of the user's neighbours that
\* are in the event's attendee list over the number of the user's neighbours,
\* and 0 when the user has no neighbour, is not a node of the graph, or the
\* event is not in the cache.
C20_SocialScoreFraction ==
    Applied("social") =>
        LET users == score_in.users
            events == score_in.events
            u == score_in.user_id
            e == score_in.event_id
            v == score_out.value
        IN  IF ~Has(users, u) \/ ~Has(events, e)
            THEN v = 0
            ELSE LET N == ConnectedTo(users, u)
                     A == Range(AttendeeList(Get(events, e)))
                 IN  /\ N = {} => v = 0
                     /\ v * Cardinality(N) = Scale * Cardinality(N \cap A)

\* C20 witness: u1 has two neighbours, one of them made by the other user's
\* connections list alone, and one of the two attends.
C20_Witness ==
    /\ Applied("social")
    /\ score_in.user_id = "u1"
    /\ Has(score_in.users, "u1") /\ Has(score_in.events, score_in.event_id)
    /\ Cardinality(ConnectedTo(score_in.users, "u1")) = 2
    /\ Cardinality(UserConnections(Get(score_in.users, "u1"))) < 2
    /\ 2 * score_out.value = Scale

====
